---- MODULE Spec2Model ----
(***************************************************************************)
(* A model of find_hordename.py: GGUFMetadataReader walks the key/value    *)
(* section of a GGUF file byte by byte, ModelNameMapper.get_model_name     *)
(* turns the embedded name (or a name derived from the file name) into the *)
(* best matching display name of the Horde model catalog.                  *)
(*                                                                         *)
(* Text is a sequence of Unicode code points, a file a sequence of bytes.  *)
(* A score is a fraction <<numerator, denominator>>.                       *)
(***************************************************************************)
EXTENDS Integers, Sequences, FiniteSets, TLC

VARIABLES
    blob,               \* how the input file was put together (never read by the program)
    fileExists,         \* whether gguf_path names a readable file
    fileBytes,          \* the content of the file
    basename,           \* os.path.basename(gguf_path)
    horde_models,       \* the catalog, in iteration order
    pc,                 \* position of the single thread of control
    fileOpen,           \* reader.file is open
    pos,                \* cursor of reader.file
    metadata_kv_count,  \* local of _read_metadata
    iter,               \* loop iterations of _read_metadata that have ended
    key,                \* local of _read_metadata
    metadata,           \* local of _read_metadata, then reader.metadata
    entryStart,         \* cursor at the start of the iteration under way
    failedAt,           \* first iteration whose key read failed (0: none so far)
    exc,                \* the exception that left the reader or the matching
    identifiers,        \* local of get_model_name
    result,             \* what get_model_name returned
    outcome             \* "running", "returned" or "raised"

vars == <<blob, fileExists, fileBytes, basename, horde_models, pc, fileOpen, pos,
          metadata_kv_count, iter, key, metadata, entryStart, failedAt, exc,
          identifiers, result, outcome>>

readerVars == <<fileOpen, pos, metadata_kv_count, iter, key, metadata, entryStart, failedAt>>
inputVars == <<blob, fileExists, fileBytes, basename, horde_models>>

(***************************************************************************)
(* Bounds of the model.                                                    *)
(***************************************************************************)
MaxEntries == 2     \* chunks written after the header of an input file
MaxCount == 3       \* largest declared metadata_kv_count
MaxCatalog == 2     \* entries of the catalog

GGUFValueType_STRING == 8

\* "general.name"
GeneralName == <<103, 101, 110, 101, 114, 97, 108, 46, 110, 97, 109, 101>>
\* ".gguf"
DotGguf == <<46, 103, 103, 117, 102>>

Min(a, b) == IF a < b THEN a ELSE b

(***************************************************************************)
(* Bytes.  struct.unpack('<Q') and '<I' are little-endian; a 64-bit value  *)
(* is kept as its eight bytes, and its number is taken only when it is     *)
(* below 2^31.                                                             *)
(***************************************************************************)
Pack(n, w) == [i \in 1..w |-> IF i <= 4 THEN (n \div (256 ^ (i - 1))) % 256 ELSE 0]
Pack64(n) == Pack(n, 8)
Pack32(n) == Pack(n, 4)
\* 2^63 as '<Q'
HugePrefix == <<0, 0, 0, 0, 0, 0, 0, 128>>

QOverflows(q) == q[8] >= 128
QSmall(q) == q[4] < 128 /\ \A i \in 5..8 : q[i] = 0
QValue(q) == q[1] + 256 * q[2] + 65536 * q[3] + 16777216 * q[4]

\* file.read(n) at cursor p: short at the end of the file, never an error
Read(p, n) == SubSeq(fileBytes, p + 1, Min(p + n, Len(fileBytes)))
After(p, n) == Min(p + n, Len(fileBytes))

(***************************************************************************)
(* bytes.decode('utf-8'): the code points, or DecodeError.                 *)
(***************************************************************************)
DecodeError == <<-1>>

IsCont(b) == b >= 128 /\ b <= 191

\* length of the UTF-8 sequence that starts s, 0 when s starts with no valid one
Utf8Width(s) ==
    LET b == s[1] IN
    IF b < 128 THEN 1
    ELSE IF b >= 194 /\ b <= 223
         THEN IF Len(s) >= 2 /\ IsCont(s[2]) THEN 2 ELSE 0
    ELSE IF b >= 224 /\ b <= 239
         THEN IF /\ Len(s) >= 3
                 /\ IsCont(s[2]) /\ IsCont(s[3])
                 /\ (b = 224 => s[2] >= 160)
                 /\ (b = 237 => s[2] <= 159)
              THEN 3 ELSE 0
    ELSE IF b >= 240 /\ b <= 244
         THEN IF /\ Len(s) >= 4
                 /\ IsCont(s[2]) /\ IsCont(s[3]) /\ IsCont(s[4])
                 /\ (b = 240 => s[2] >= 144)
                 /\ (b = 244 => s[2] <= 143)
              THEN 4 ELSE 0
    ELSE 0

Utf8CodePoint(s, w) ==
    IF w = 1 THEN s[1]
    ELSE IF w = 2 THEN (s[1] - 192) * 64 + (s[2] - 128)
    ELSE IF w = 3 THEN (s[1] - 224) * 4096 + (s[2] - 128) * 64 + (s[3] - 128)
    ELSE (s[1] - 240) * 262144 + (s[2] - 128) * 4096 + (s[3] - 128) * 64 + (s[4] - 128)

\* Every byte that is no continuation byte must start a valid sequence, and
\* every continuation byte must belong to the sequence of such a byte.
Utf8Decode(s) ==
    LET from(i) == SubSeq(s, i, Len(s))
        starts == SelectSeq([i \in 1..Len(s) |-> i], LAMBDA i : ~IsCont(s[i]))
        valid ==
            /\ \A n \in 1..Len(starts) : Utf8Width(from(starts[n])) > 0
            /\ \A j \in 1..Len(s) :
                  IsCont(s[j]) =>
                      \E n \in 1..Len(starts) :
                          starts[n] < j /\ j < starts[n] + Utf8Width(from(starts[n]))
    IN  IF valid
        THEN [n \in 1..Len(starts) |->
                 Utf8CodePoint(from(starts[n]), Utf8Width(from(starts[n])))]
        ELSE DecodeError

(***************************************************************************)
(* GGUFMetadataReader._read_string at cursor p: the set of ways it can     *)
(* end.  A request of 2^63 bytes or more raises OverflowError; whether a   *)
(* request of 2^31 bytes or more can be allocated depends on the host, so  *)
(* both MemoryError and the short read are kept.                           *)
(***************************************************************************)
Raised(e, p) == [ok |-> FALSE, err |-> e, str |-> <<>>, pos |-> p, len |-> 0]

Decoded(data, p) ==
    LET s == Utf8Decode(data) IN
    IF s = DecodeError THEN Raised("UnicodeDecodeError", p)
    ELSE [ok |-> TRUE, err |-> "none", str |-> s, pos |-> p, len |-> Len(data)]

ReadStringOutcomes(p) ==
    LET q == Read(p, 8) IN
    IF Len(q) < 8 THEN {Raised("struct.error", After(p, 8))}
    ELSE IF QOverflows(q) THEN {Raised("OverflowError", p + 8)}
    ELSE IF QSmall(q)
         THEN {Decoded(Read(p + 8, QValue(q)), After(p + 8, QValue(q)))}
         ELSE {Raised("MemoryError", p + 8),
               Decoded(Read(p + 8, Len(fileBytes)), Len(fileBytes))}

(***************************************************************************)
(* ModelNameMapper._normalize.  str.lower() maps A-Z to a-z; of all other  *)
(* code points only U+0130 and U+212A lower to something that holds an     *)
(* ASCII letter, and everything outside a-z0-9 is removed afterwards.      *)
(***************************************************************************)
Lower(c) ==
    IF c >= 65 /\ c <= 90 THEN <<c + 32>>
    ELSE IF c = 304 THEN <<105, 775>>
    ELSE IF c = 8490 THEN <<107>>
    ELSE <<c>>

RECURSIVE LowerAll(_)
LowerAll(text) ==
    IF text = <<>> THEN <<>> ELSE Lower(Head(text)) \o LowerAll(Tail(text))

IsAlnum(c) == (c >= 97 /\ c <= 122) \/ (c >= 48 /\ c <= 57)

Normalize(text) ==
    IF text = <<>> THEN <<>> ELSE SelectSeq(LowerAll(text), IsAlnum)

(***************************************************************************)
(* difflib.SequenceMatcher(None, a, b).ratio() for sequences shorter than  *)
(* 200 elements (the popularity heuristic of difflib starts at 200, and    *)
(* isjunk is None): find_longest_match returns the longest common block,   *)
(* the one starting earliest in a and, among those, earliest in b;         *)
(* get_matching_blocks recurses on what lies left and right of it; ratio   *)
(* is 2.0 * matches / (len(a) + len(b)).                                   *)
(***************************************************************************)
RECURSIVE RunLength(_, _, _, _, _, _)
\* length of the common run of a[i..ahi] and b[j..bhi]
RunLength(a, b, i, j, ahi, bhi) ==
    IF i > ahi \/ j > bhi \/ a[i] # b[j] THEN 0
    ELSE 1 + RunLength(a, b, i + 1, j + 1, ahi, bhi)

SetMax(S) == CHOOSE x \in S : \A y \in S : y <= x
SetMin(S) == CHOOSE x \in S : \A y \in S : x <= y

FindLongestMatch(a, b, alo, ahi, blo, bhi) ==
    LET k == SetMax({RunLength(a, b, i, j, ahi, bhi) : i \in alo..ahi, j \in blo..bhi})
        besti == SetMin({i \in alo..ahi :
                            \E j \in blo..bhi : RunLength(a, b, i, j, ahi, bhi) = k})
        bestj == SetMin({j \in blo..bhi : RunLength(a, b, besti, j, ahi, bhi) = k})
    IN  <<besti, bestj, k>>

RECURSIVE Matches(_, _, _, _, _, _)
\* sum of the sizes of get_matching_blocks() within a[alo..ahi], b[blo..bhi]
Matches(a, b, alo, ahi, blo, bhi) ==
    IF alo > ahi \/ blo > bhi THEN 0
    ELSE LET m == FindLongestMatch(a, b, alo, ahi, blo, bhi) IN
         IF m[3] = 0 THEN 0
         ELSE m[3] + Matches(a, b, alo, m[1] - 1, blo, m[2] - 1)
                   + Matches(a, b, m[1] + m[3], ahi, m[2] + m[3], bhi)

Ratio_overFirst(a, b) == <<2 * Matches(a, b, 1, Len(a), 1, Len(b)), 2 * Len(a)>>

Ratio(a, b) == <<2 * Matches(a, b, 1, Len(a), 1, Len(b)), Len(a) + Len(b)>>

Zero == <<0, 1>>
\* 0.7
Boost == <<7, 10>>
\* 0.5
Threshold == <<1, 2>>

FracGT(x, y) == x[1] * y[2] > y[1] * x[2]
FracGE(x, y) == x[1] * y[2] >= y[1] * x[2]
FracEQ(x, y) == x[1] * y[2] = y[1] * x[2]
FracMax(x, y) == IF FracGT(y, x) THEN y ELSE x

\* ModelNameMapper._get_similarity
Similarity(str1, str2) ==
    IF str1 = <<>> \/ str2 = <<>> THEN Zero ELSE Ratio(str1, str2)

\* Python's  s in t  for str: the empty string is in every string
Contains(t, s) ==
    \E i \in 0..(Len(t) - Len(s)) : SubSeq(t, i + 1, i + Len(s)) = s

\* lines 101-104 of get_model_name
BoostedScore(norm_id, norm_name) ==
    IF Contains(norm_name, norm_id) \/ Contains(norm_id, norm_name)
    THEN FracMax(Similarity(norm_id, norm_name), Boost)
    ELSE Similarity(norm_id, norm_name)

(***************************************************************************)
(* The fallback identifier, lines 83-85 of get_model_name, for ASCII base  *)
(* names without a line break.                                             *)
(***************************************************************************)
EndsWith(s, t) == Len(s) >= Len(t) /\ SubSeq(s, Len(s) - Len(t) + 1, Len(s)) = t

\* re.sub(r'\.gguf$', '', s)
StripExtension(s) ==
    IF EndsWith(s, DotGguf) THEN SubSeq(s, 1, Len(s) - Len(DotGguf)) ELSE s

IsDigit(c) == c >= 48 /\ c <= 57
\* [A-Z_]
IsUpperOrUnderscore(c) == (c >= 65 /\ c <= 90) \/ c = 95

\* t, whole, matches  Q\d+(?:_[A-Z_]+)?
MatchesQuantBody(t) ==
    /\ Len(t) >= 2
    /\ t[1] = 81
    /\ \E d \in 2..Len(t) :
          /\ \A i \in 2..d : IsDigit(t[i])
          /\ \/ d = Len(t)
             \/ /\ d + 2 <= Len(t)
                /\ t[d + 1] = 95
                /\ \A i \in (d + 2)..Len(t) : IsUpperOrUnderscore(t[i])

\* t, whole, matches  [-_]?Q\d+(?:_[A-Z_]+)?
MatchesQuant(t) ==
    \/ MatchesQuantBody(t)
    \/ Len(t) >= 1 /\ (t[1] = 45 \/ t[1] = 95) /\ MatchesQuantBody(Tail(t))

\* re.sub(r'[-_]?Q\d+(?:_[A-Z_]+)?$', '', s): the leftmost match is removed
StripQuant(s) ==
    LET hits == {p \in 1..Len(s) : MatchesQuant(SubSeq(s, p, Len(s)))} IN
    IF hits = {} THEN s
    ELSE SubSeq(s, 1, SetMin(hits) - 1)

FallbackIdentifier(name) == StripQuant(StripExtension(name))

(***************************************************************************)
(* The selection loop of get_model_name, lines 88-112.  A catalog entry is *)
(* [dict, fields]: whether model_data is a JSON object, and its fields.    *)
(***************************************************************************)
None == <<-2>>

\* model_data.get("model_name", "")
ModelShortName(model_data) ==
    IF "model_name" \in DOMAIN model_data.fields
    THEN model_data.fields["model_name"] ELSE <<>>

\* [self._normalize(id) for id in identifiers if id]
NormalizedIdentifiers(ids) ==
    LET kept == SelectSeq(ids, LAMBDA id : id # <<>>) IN
    [i \in 1..Len(kept) |-> Normalize(kept[i])]

Replaces_orEqual(similarity, best_score) == FracGE(similarity, best_score)

\* line 106
Replaces(similarity, best_score) == FracGT(similarity, best_score)

RECURSIVE InnerLoop(_, _, _, _)
\* lines 96-108 from the n-th normalised identifier on; best is [score, match]
InnerLoop(norm_ids, n, model_short_name, best) ==
    IF n > Len(norm_ids) THEN best
    ELSE LET norm_name == Normalize(model_short_name)
             similarity == BoostedScore(norm_ids[n], norm_name)
         IN  IF norm_name = <<>>
             THEN InnerLoop(norm_ids, n + 1, model_short_name, best)
             ELSE IF Replaces(similarity, best.score)
             THEN InnerLoop(norm_ids, n + 1, model_short_name,
                            [score |-> similarity, match |-> model_short_name])
             ELSE InnerLoop(norm_ids, n + 1, model_short_name, best)

RECURSIVE OuterLoop(_, _, _, _)
\* lines 93-108 from the m-th catalog entry on
OuterLoop(models, m, norm_ids, best) ==
    IF m > Len(models) THEN best
    ELSE OuterLoop(models, m + 1, norm_ids,
                   InnerLoop(norm_ids, 1, ModelShortName(models[m]), best))

\* lines 110-112
Accepts(best_score) == FracGE(best_score, Threshold)

BestMatch(models, ids) ==
    LET best == OuterLoop(models, 1, NormalizedIdentifiers(ids),
                          [score |-> Zero, match |-> None])
    IN  IF Accepts(best.score) THEN best.match ELSE <<>>

\* model_data.get raises AttributeError when model_data is no JSON object
MatchingRaises(models) == \E m \in 1..Len(models) : ~models[m].dict

\* lines 78-86
UsesFallback(md) == GeneralName \notin DOMAIN md

Identifiers_noFallback(md, name) ==
    IF UsesFallback(md) THEN <<>> ELSE <<md[GeneralName]>>

Identifiers(md, name) ==
    IF UsesFallback(md) THEN <<FallbackIdentifier(name)>> ELSE <<md[GeneralName]>>

(***************************************************************************)
(* Input files.  A file is the 24-byte header followed by chunks, with     *)
(* some bytes of the last chunk (or of the header) missing.                *)
(***************************************************************************)
StrEntry(k, v) == [t |-> "str", k |-> k, tag |-> GGUFValueType_STRING, v |-> v]
OtherEntry(k, tag, payload) == [t |-> "other", k |-> k, tag |-> tag, v |-> payload]
RawBytes(bytes) == [t |-> "raw", k |-> <<>>, tag |-> 0, v |-> bytes]

EncodeEntry(e) ==
    IF e.t = "raw" THEN e.v
    ELSE Pack64(Len(e.k)) \o e.k \o Pack32(e.tag)
         \o (IF e.t = "str" THEN Pack64(Len(e.v)) \o e.v ELSE e.v)

RECURSIVE EncodeEntries(_)
EncodeEntries(es) ==
    IF es = <<>> THEN <<>> ELSE EncodeEntry(Head(es)) \o EncodeEntries(Tail(es))

\* magic "GGUF", version 3, tensor_count 0, metadata_kv_count n
Header(n) == <<71, 71, 85, 70>> \o Pack32(3) \o Pack64(0) \o Pack64(n)

BlobBytes(b) ==
    LET all == Header(b.declared) \o EncodeEntries(b.entries)
    IN  SubSeq(all, 1, Len(all) - b.dropped)

SeqsUpTo(S, n) == UNION {[1..m -> S] : m \in 0..n}

\* "a"
KeyA == <<97>>
\* U+00E9 in UTF-8
ValueEAcute == <<195, 169>>
\* "aba", "bca", "ab", "-"
TextAba == <<97, 98, 97>>
TextBca == <<98, 99, 97>>
TextAb == <<97, 98>>
TextDash == <<45>>

ScanEntries ==
    { StrEntry(KeyA, ValueEAcute),
      StrEntry(GeneralName, TextAba),
      OtherEntry(KeyA, 4, <<1, 0, 0, 0>>),
      RawBytes(Pack64(1) \o <<255>>),
      RawBytes(HugePrefix) }

\* the bytes dropped come from the last chunk, or from the header when there is none
Droppable(b) ==
    IF b.entries = <<>> THEN b.dropped <= Len(Header(0))
    ELSE b.dropped < Len(EncodeEntry(b.entries[Len(b.entries)]))

ScanBlobs ==
    { b \in [declared : 0..MaxCount, entries : SeqsUpTo(ScanEntries, MaxEntries),
             dropped : 0..40] : Droppable(b) }

NameValues == {TextAba, TextBca, TextAb, TextDash, ValueEAcute, <<>>}

NamedBlobs ==
    { [declared |-> 1, entries |-> <<StrEntry(GeneralName, v)>>, dropped |-> 0] :
        v \in NameValues }

EmptyBlob == [declared |-> 0, entries |-> <<>>, dropped |-> 0]

Stems == {TextAba, TextBca, TextDash}
\* "", "-", "_", "."
Seps == {<<>>, <<45>>, <<95>>, <<46>>}
\* "Q4", "Q4_K_M", "Q8_0"
Quants == {<<81, 52>>, <<81, 52, 95, 75, 95, 77>>, <<81, 56, 95, 48>>}

Basenames ==
    {st \o sp \o q \o DotGguf : st \in Stems, sp \in Seps, q \in Quants}
        \cup {st \o DotGguf : st \in Stems} \cup Stems

\* "aba-Q4_K_M.gguf"
ScanBasename == TextAba \o <<45, 81, 52, 95, 75, 95, 77>> \o DotGguf

Named(s) == [dict |-> TRUE, fields |-> [f \in {"model_name"} |-> s]]
\* "bca", "Ab-a", "ac", "A-c"
DisplayNames == {TextBca, <<65, 98, 45, 97>>, <<97, 99>>, <<65, 45, 99>>}

ModelRecords ==
    {Named(s) : s \in DisplayNames}
        \cup {[dict |-> TRUE, fields |-> [f \in {"description"} |-> <<>>]],
              [dict |-> FALSE, fields |-> [f \in {"description"} |-> <<>>]]}

Catalogs == SeqsUpTo(ModelRecords, MaxCatalog)

ScanCatalog == <<Named(<<65, 98, 45, 97>>)>>

(***************************************************************************)
(* The state before get_model_name is called, line 122.                    *)
(***************************************************************************)
Init ==
    /\ \/ /\ blob \in ScanBlobs
          /\ fileExists = TRUE
          /\ basename = ScanBasename
          /\ horde_models = ScanCatalog
       \/ /\ blob = EmptyBlob
          /\ fileExists = FALSE
          /\ basename = ScanBasename
          /\ horde_models \in Catalogs
       \/ /\ blob = EmptyBlob
          /\ fileExists = TRUE
          /\ basename \in Basenames
          /\ horde_models \in Catalogs
       \/ /\ blob \in NamedBlobs
          /\ fileExists = TRUE
          /\ basename = ScanBasename
          /\ horde_models \in Catalogs
    /\ fileBytes = IF fileExists THEN BlobBytes(blob) ELSE <<>>
    /\ pc = "open"
    /\ fileOpen = FALSE
    /\ pos = 0
    /\ metadata_kv_count = 0
    /\ iter = 0
    /\ key = <<>>
    /\ metadata = <<>>
    /\ entryStart = 0
    /\ failedAt = 0
    /\ exc = "none"
    /\ identifiers = <<>>
    /\ result = None
    /\ outcome = "running"

(***************************************************************************)
(* GGUFMetadataReader                                                      *)
(***************************************************************************)
\* line 14: open(filename, 'rb')
Open ==
    /\ pc = "open"
    /\ IF fileExists
       THEN /\ fileOpen' = TRUE
            /\ pos' = 0
            /\ pc' = "header"
            /\ exc' = exc
       ELSE /\ pc' = "except"
            /\ exc' = "FileNotFoundError"
            /\ UNCHANGED <<fileOpen, pos>>
    /\ UNCHANGED <<metadata_kv_count, iter, key, metadata, entryStart, failedAt>>
    /\ UNCHANGED <<inputVars, identifiers, result, outcome>>

\* lines 36-37 and _read_header
ReadHeader ==
    /\ pc = "header"
    /\ LET q == Read(After(pos, 16), 8) IN
       IF Len(q) < 8
       THEN /\ pos' = Len(fileBytes)
            /\ pc' = "except"
            /\ exc' = "struct.error"
            /\ UNCHANGED <<metadata_kv_count, metadata>>
       ELSE /\ pos' = pos + 24
            /\ metadata_kv_count' = QValue(q)
            /\ metadata' = <<>>
            /\ pc' = "loop"
            /\ exc' = exc
    /\ UNCHANGED <<fileOpen, iter, key, entryStart, failedAt>>
    /\ UNCHANGED <<inputVars, identifiers, result, outcome>>

\* line 43: what the loop does when the key cannot be read
AfterKeyFailure == "loop"

\* lines 39-43: the next iteration starts and reads its key
ReadKey ==
    /\ pc = "loop"
    /\ iter < metadata_kv_count
    /\ \E o \in ReadStringOutcomes(pos) :
          /\ entryStart' = pos
          /\ pos' = o.pos
          /\ IF o.ok
             THEN /\ key' = o.str
                  /\ pc' = "tag"
                  /\ UNCHANGED <<iter, failedAt>>
             ELSE /\ pc' = AfterKeyFailure
                  /\ iter' = iter + 1
                  /\ failedAt' = IF failedAt = 0 THEN iter + 1 ELSE failedAt
                  /\ key' = key
    /\ UNCHANGED <<fileOpen, metadata_kv_count, metadata, exc>>
    /\ UNCHANGED <<inputVars, identifiers, result, outcome>>

\* line 39: range(metadata_kv_count) is exhausted
LoopExit ==
    /\ pc = "loop"
    /\ iter >= metadata_kv_count
    /\ pc' = "close"
    /\ UNCHANGED <<readerVars, exc, inputVars, identifiers, result, outcome>>

SkippedValueBytes_scalar(tag) == 4

\* lines 51-53: bytes of the value consumed when the entry is skipped
SkippedValueBytes(tag) == 0

\* lines 45-46 and 51-53
ReadTag ==
    /\ pc = "tag"
    /\ LET b == Read(pos, 4) IN
       IF Len(b) < 4
       THEN /\ pos' = Len(fileBytes)
            /\ pc' = "except"
            /\ exc' = "struct.error"
            /\ iter' = iter
       ELSE IF b = Pack32(GGUFValueType_STRING)
       THEN /\ pos' = pos + 4
            /\ pc' = "value"
            /\ UNCHANGED <<exc, iter>>
       ELSE /\ pos' = After(pos + 4, SkippedValueBytes(b))
            /\ pc' = "loop"
            /\ iter' = iter + 1
            /\ exc' = exc
    /\ UNCHANGED <<fileOpen, metadata_kv_count, key, metadata, entryStart, failedAt>>
    /\ UNCHANGED <<inputVars, identifiers, result, outcome>>

StopsScan_never(k) == FALSE

\* lines 49-50
StopsScan(k) == k = GeneralName

\* lines 47-50
ReadValue ==
    /\ pc = "value"
    /\ \E o \in ReadStringOutcomes(pos) :
          /\ pos' = o.pos
          /\ IF o.ok
             THEN /\ metadata' = (key :> o.str) @@ metadata
                  /\ exc' = exc
                  /\ IF StopsScan(key)
                     THEN pc' = "close" /\ iter' = iter
                     ELSE pc' = "loop" /\ iter' = iter + 1
             ELSE /\ pc' = "except"
                  /\ exc' = o.err
                  /\ UNCHANGED <<metadata, iter>>
    /\ UNCHANGED <<fileOpen, metadata_kv_count, key, entryStart, failedAt>>
    /\ UNCHANGED <<inputVars, identifiers, result, outcome>>

\* lines 54 and 15-16: _read_metadata returns, the file is closed
Close ==
    /\ pc = "close"
    /\ fileOpen' = FALSE
    /\ pc' = "match"
    /\ UNCHANGED <<pos, metadata_kv_count, iter, key, metadata, entryStart, failedAt>>
    /\ UNCHANGED <<exc, inputVars, identifiers, result, outcome>>

(***************************************************************************)
(* ModelNameMapper.get_model_name                                          *)
(***************************************************************************)
\* lines 76-112
Match ==
    /\ pc = "match"
    /\ LET ids == Identifiers(metadata, basename) IN
       /\ identifiers' = ids
       /\ IF MatchingRaises(horde_models)
          THEN /\ pc' = "except"
               /\ exc' = "AttributeError"
               /\ UNCHANGED <<result, outcome>>
          ELSE /\ pc' = "done"
               /\ result' = BestMatch(horde_models, ids)
               /\ outcome' = "returned"
               /\ exc' = exc
    /\ UNCHANGED <<readerVars, inputVars>>

HandleException_reraise ==
    /\ pc = "except"
    /\ outcome' = "raised"
    /\ pc' = "done"
    /\ UNCHANGED <<readerVars, exc, inputVars, identifiers, result>>

\* lines 114-115.  The reader that raised is garbage by now; whether its file
\* object has been finalised depends on the interpreter.
HandleException ==
    /\ pc = "except"
    /\ result' = <<>>
    /\ outcome' = "returned"
    /\ pc' = "done"
    /\ \E finalised \in BOOLEAN : fileOpen' = (fileOpen /\ ~finalised)
    /\ UNCHANGED <<pos, metadata_kv_count, iter, key, metadata, entryStart, failedAt>>
    /\ UNCHANGED <<exc, inputVars, identifiers>>

Next ==
    \/ Open
    \/ ReadHeader
    \/ ReadKey
    \/ LoopExit
    \/ ReadTag
    \/ ReadValue
    \/ Close
    \/ Match
    \/ HandleException

Spec == Init /\ [][Next]_vars

(***************************************************************************)
(* Properties                                                              *)
(***************************************************************************)
Returned == pc = "done" /\ outcome = "returned"
\* the reader returned and the matching ran to its end
Matched == Returned /\ exc = "none"

\* some step is possible; Match is guarded by its position alone
CanStep ==
    \/ pc = "match"
    \/ ENABLED (Open \/ ReadHeader \/ ReadKey \/ LoopExit \/ ReadTag \/ ReadValue
                    \/ Close \/ HandleException)

\* C1: get_model_name always ends, with exactly one string and no exception
\* leaving it; whenever an exception left the reader or the matching, the
\* string is empty.
C1_Total ==
    /\ outcome # "raised"
    /\ pc = "done" =>
          /\ outcome = "returned"
          /\ result \in Seq(Nat)
          /\ ~ENABLED Next
          /\ (exc # "none" => result = <<>>)
    /\ pc # "done" =>
          /\ outcome = "running"
          /\ result = None
          /\ CanStep

C1_Witness == Returned /\ exc = "UnicodeDecodeError" /\ result = <<>>

\* C2: once the reader has finished or failed, its file is closed.
C2_ClosedOnEveryExit == pc \in {"match", "except", "done"} => ~fileOpen

\* C3: after the first failed key read the scan is over: no later iteration
\* runs, the cursor stays and the mapping stays what it was at the failure.
C3_KeyFailureEndsScan ==
    [][failedAt # 0 => (iter' = iter /\ pos' = pos /\ metadata' = metadata)]_vars

(***************************************************************************)
(* The selection, stated over the catalog as a whole: the score of an      *)
(* entry is its best score over the candidates, 0 when its display name    *)
(* normalises to nothing; the first entry with the top score is returned   *)
(* when that score reaches the threshold.                                  *)
(***************************************************************************)
PairScore(norm_id, model_data) ==
    LET norm_name == Normalize(ModelShortName(model_data)) IN
    IF norm_name = <<>> THEN Zero ELSE BoostedScore(norm_id, norm_name)

EntryScore(norm_ids, model_data) ==
    IF norm_ids = <<>> THEN Zero
    ELSE LET n == CHOOSE n \in 1..Len(norm_ids) :
                     \A o \in 1..Len(norm_ids) :
                         FracGE(PairScore(norm_ids[n], model_data),
                                PairScore(norm_ids[o], model_data))
         IN  PairScore(norm_ids[n], model_data)

FirstBest(models, norm_ids) ==
    LET sc(m) == EntryScore(norm_ids, models[m])
        tops == {m \in 1..Len(models) : \A o \in 1..Len(models) : FracGE(sc(m), sc(o))}
        first == CHOOSE m \in tops : \A o \in tops : m <= o
    IN  IF tops # {} /\ FracGE(sc(first), Threshold)
        THEN ModelShortName(models[first]) ELSE <<>>

\* C4 as claimed: whenever the distinguished key was not delivered, the
\* fallback identifier is derived from the file name and its match returned.
C4_AnyFailureFallsBack ==
    (Returned /\ UsesFallback(metadata) /\ ~MatchingRaises(horde_models)) =>
        result = FirstBest(horde_models,
                           NormalizedIdentifiers(<<FallbackIdentifier(basename)>>))

\* C4 as amended: the fallback is used when the reader returns without the
\* distinguished key; when the reader raises, no identifier is derived and
\* the result is empty.
C4_FallbackWhenReaderReturns ==
    (Returned /\ ~MatchingRaises(horde_models)) =>
        IF exc = "none"
        THEN UsesFallback(metadata) =>
                /\ identifiers = <<FallbackIdentifier(basename)>>
                /\ result = FirstBest(horde_models,
                                      NormalizedIdentifiers(<<FallbackIdentifier(basename)>>))
        ELSE identifiers = <<>> /\ result = <<>>

C4_Witness ==
    /\ Matched
    /\ failedAt # 0
    /\ UsesFallback(metadata)
    /\ Normalize(FallbackIdentifier(basename)) = Normalize(result)
    /\ result # <<>>

(***************************************************************************)
(* C5.  The input holds the distinguished key as its k-th entry, whole,    *)
(* after k-1 whole string entries with other keys, and declares at least k *)
(* entries.                                                                *)
(***************************************************************************)
WellFormedString(e) ==
    e.t = "str" /\ Utf8Decode(e.k) # DecodeError /\ Utf8Decode(e.v) # DecodeError

DistinguishedAt(k) ==
    /\ fileExists
    /\ k <= Len(blob.entries)
    /\ k <= blob.declared
    /\ \A i \in 1..k : WellFormedString(blob.entries[i])
    /\ \A i \in 1..(k - 1) : Utf8Decode(blob.entries[i].k) # GeneralName
    /\ Utf8Decode(blob.entries[k].k) = GeneralName
    /\ (k = Len(blob.entries) => blob.dropped = 0)

EntryEnd(k) == Len(Header(0)) + Len(EncodeEntries(SubSeq(blob.entries, 1, k)))

ReaderLeft == pc \in {"close", "match", "except", "done"}

\* C5: the reader then leaves the loop with the mapping of the first k
\* entries, the cursor at the end of the k-th entry, and reads nothing more.
C5_StopsAtDistinguishedKey ==
    \A k \in 1..Len(blob.entries) :
        (DistinguishedAt(k) /\ ReaderLeft) =>
            /\ exc \in {"none", "AttributeError"}
            /\ pos = EntryEnd(k)
            /\ iter = k - 1
            /\ DOMAIN metadata = {Utf8Decode(blob.entries[i].k) : i \in 1..k}
            /\ metadata[GeneralName] = Utf8Decode(blob.entries[k].v)
            /\ \A i \in 1..k :
                  (\A j \in (i + 1)..k : blob.entries[j].k # blob.entries[i].k) =>
                      metadata[Utf8Decode(blob.entries[i].k)] = Utf8Decode(blob.entries[i].v)

C5_Witness ==
    /\ pc = "done"
    /\ \E k \in 1..Len(blob.entries) :
          /\ DistinguishedAt(k)
          /\ k < Len(blob.entries)
          /\ k < blob.declared
          /\ Cardinality(DOMAIN metadata) = k
          /\ pos = EntryEnd(k)

\* C6: a candidate whose normalised form is empty never gets a catalog
\* entry returned.
C6_EmptyCandidateNeverMatches ==
    (Matched /\ \A i \in 1..Len(identifiers) : Normalize(identifiers[i]) = <<>>) =>
        result = <<>>

\* C7: the result is the display name of the first catalog entry with the
\* top score when that score is at least 0.5, and empty otherwise.
C7_FirstBestAboveThreshold ==
    Matched =>
        /\ result = FirstBest(horde_models, NormalizedIdentifiers(identifiers))
        /\ \/ result = <<>>
           \/ \E m \in 1..Len(horde_models) : result = ModelShortName(horde_models[m])

\* two entries share the top score, which is exactly 0.5; the first is returned
C7_Witness ==
    /\ Matched
    /\ Len(horde_models) = 2
    /\ result = ModelShortName(horde_models[1])
    /\ result # ModelShortName(horde_models[2])
    /\ LET ids == NormalizedIdentifiers(identifiers) IN
       /\ FracEQ(EntryScore(ids, horde_models[1]), Threshold)
       /\ FracEQ(EntryScore(ids, horde_models[2]), Threshold)

ScoredPairs ==
    {<<id, Normalize(ModelShortName(horde_models[m]))>> :
        id \in {Normalize(identifiers[i]) : i \in 1..Len(identifiers)},
        m \in 1..Len(horde_models)}

\* C8 as claimed: the similarity of a pair does not depend on its order.
C8_Symmetric ==
    Matched =>
        \A p \in ScoredPairs : FracEQ(Similarity(p[1], p[2]), Similarity(p[2], p[1]))

SharesNothing(a, b) == \A i \in 1..Len(a) : \A j \in 1..Len(b) : a[i] # b[j]

\* C8 as amended: the order does not matter when one string contains the
\* other (the shorter one is then matched whole) or when they share no
\* character (the score is then 0).
C8_SymmetricWhenContained ==
    Matched =>
        \A p \in ScoredPairs :
            /\ (Contains(p[1], p[2]) \/ Contains(p[2], p[1])) =>
                  /\ FracEQ(Similarity(p[1], p[2]), Similarity(p[2], p[1]))
                  /\ (p[1] # <<>> /\ p[2] # <<>>) =>
                        FracEQ(Similarity(p[1], p[2]),
                               <<2 * Min(Len(p[1]), Len(p[2])), Len(p[1]) + Len(p[2])>>)
            /\ SharesNothing(p[1], p[2]) =>
                  /\ FracEQ(Similarity(p[1], p[2]), Zero)
                  /\ FracEQ(Similarity(p[2], p[1]), Zero)

C8_Witness ==
    /\ Matched
    /\ \E p \in ScoredPairs :
          /\ Contains(p[2], p[1])
          /\ p[1] # <<>>
          /\ Len(p[1]) < Len(p[2])

\* C9: for a base name <stem><sep><quant>.gguf the fallback identifier is
\* the stem.
C9_FallbackIsStem ==
    (Matched /\ UsesFallback(metadata)) =>
        \A st \in Stems : \A sp \in Seps \ {<<>>} : \A q \in Quants :
            basename = st \o sp \o q \o DotGguf => identifiers = <<st>>

\* C10: an entry whose type tag is not STRING is skipped: the iteration ends
\* with the cursor right after the tag, nothing recorded and no error, and
\* the next iteration reads its key from there.
C10_SkipLeavesValueUnread ==
    [][/\ (pc = "tag" /\ Len(Read(pos, 4)) = 4
                      /\ Read(pos, 4) # Pack32(GGUFValueType_STRING)) =>
              /\ pc' = "loop"
              /\ pos' = entryStart + 8 + QValue(Read(entryStart, 8)) + 4
              /\ pos' = pos + 4
              /\ iter' = iter + 1
              /\ metadata' = metadata
              /\ exc' = "none"
              /\ fileOpen'
       /\ (pc = "loop" /\ pc' # "close") => entryStart' = pos
      ]_vars

\* an entry has just been skipped and another iteration is to come
C10_Witness ==
    /\ pc = "loop"
    /\ iter >= 1
    /\ iter < metadata_kv_count
    /\ Len(Read(entryStart, 8)) = 8
    /\ QSmall(Read(entryStart, 8))
    /\ pos = entryStart + 8 + QValue(Read(entryStart, 8)) + 4
    /\ Len(Read(pos - 4, 4)) = 4
    /\ Read(pos - 4, 4) # Pack32(GGUFValueType_STRING)

====
